---- MODULE Spec2Model ----
(***************************************************************************)
(* Lead intake endpoint of audituniversepro-site.  The repository holds    *)
(* three copies of the handler onRequest:                                  *)
(*   "A"  src/functions/api/lead.js lines 1-165   (pickAllowedOrigin)      *)
(*   "B"  src/functions/api/lead.js lines 167-284 (hp/company honeypot)    *)
(*   "C"  src/unnamed/part_000                    (ALLOWED_ORIGINS)        *)
(* One behaviour is one HTTP request handled by one of the three copies.   *)
(* Strings are sequences of one-character strings, so that trim, slice,    *)
(* toLowerCase, startsWith/endsWith and the e-mail regular expression are  *)
(* computed, not assumed.                                                  *)
(***************************************************************************)
EXTENDS Integers, Sequences, FiniteSets

VARIABLES variant, request, env, pc, raw, lead, dbCalls, fetchCalls, response

vars == <<variant, request, env, pc, raw, lead, dbCalls, fetchCalls, response>>

(***************************************************************************)
(* Bounds of the model.                                                    *)
(***************************************************************************)
\* Length of the over-long message; larger than every message cap.
LongLen == 4001
\* Length of the other over-long inputs; larger than every other field cap.
MidLen == 501

(***************************************************************************)
(* JavaScript strings and values.                                          *)
(***************************************************************************)
\* Characters matched by \s and stripped by String.prototype.trim.
WS == {" ", "\t", "\n"}

UpperAlpha == <<"A", "B", "C", "D", "E", "F", "G", "H", "I", "J", "K", "L", "M", "N", "O", "P", "Q", "R", "S", "T", "U", "V", "W", "X", "Y", "Z">>
LowerAlpha == <<"a", "b", "c", "d", "e", "f", "g", "h", "i", "j", "k", "l", "m", "n", "o", "p", "q", "r", "s", "t", "u", "v", "w", "x", "y", "z">>

LowerChar(c) ==
  IF \E i \in 1..26 : UpperAlpha[i] = c
    THEN LowerAlpha[CHOOSE i \in 1..26 : UpperAlpha[i] = c]
    ELSE c

\* String.prototype.toLowerCase
ToLowerCase(s) == [i \in 1..Len(s) |-> LowerChar(s[i])]

\* String.prototype.trim
Trim(s) ==
  IF \A i \in 1..Len(s) : s[i] \in WS
    THEN <<>>
    ELSE LET first == CHOOSE i \in 1..Len(s) :
                        s[i] \notin WS /\ \A j \in 1..(i-1) : s[j] \in WS
             last  == CHOOSE i \in 1..Len(s) :
                        s[i] \notin WS /\ \A j \in (i+1)..Len(s) : s[j] \in WS
         IN  SubSeq(s, first, last)

\* s.slice(0, max)
Slice(s, max) == IF Len(s) > max THEN SubSeq(s, 1, max) ELSE s

\* s.startsWith(p), s.endsWith(p)
StartsWith(s, p) == Len(s) >= Len(p) /\ SubSeq(s, 1, Len(p)) = p
EndsWith(s, p) == Len(s) >= Len(p) /\ SubSeq(s, Len(s) - Len(p) + 1, Len(s)) = p

\* A string of n characters "a".
LongStr(n) == [i \in 1..n |-> "a"]

\* JavaScript values that a JSON or form body, a header or a binding can
\* hold: null/undefined, a string, a boolean, a number.  s is String(value).
JsNull == [t |-> "null", s |-> <<>>]
JsStr(s) == [t |-> "string", s |-> s]
JsTrue == [t |-> "boolean", s |-> <<"t", "r", "u", "e">>]
JsOne == [t |-> "number", s |-> <<"1">>]

IsNullish(v) == v.t = "null"
JsString(v) == v.s
Truthy(v) ==
  CASE v.t = "null" -> FALSE
    [] v.t = "string" -> v.s # <<>>
    [] v.t = "boolean" -> v.s = <<"t", "r", "u", "e">>
    [] v.t = "number" -> v.s # <<"0">>
\* a || b
JsOr(a, b) == IF Truthy(a) THEN a ELSE b
\* s || null, as bound to the INSERT statement
OrNull(s) == IF s # <<>> THEN JsStr(s) ELSE JsNull

(***************************************************************************)
(* Pure helpers of the handlers.                                           *)
(***************************************************************************)
\* /^[^\s@]+@[^\s@]+\.[^\s@]+$/.test(email)
\* The classes [^\s@] exclude "@", so a match has exactly one "@", at
\* position at >= 2, no white space, and a "." somewhere after at+1 and
\* before the last character.
IsValidEmail(email) ==
  LET n == Len(email)
      ats == {i \in 1..n : email[i] = "@"}
  IN  /\ Cardinality(ats) = 1
      /\ \A i \in 1..n : email[i] \notin WS
      /\ LET at == CHOOSE i \in ats : TRUE
         IN  /\ at >= 2
             /\ \E j \in (at+2)..(n-1) : email[j] = "."

\* normalizeString(v, max) of variant A, normalizeStr(v, maxLen) of variant C
NormalizeString(v, max) ==
  IF IsNullish(v) THEN <<>> ELSE Slice(Trim(JsString(v)), max)

\* str(v) of variant B
Str(v) == IF IsNullish(v) THEN <<>> ELSE Trim(JsString(v))

\* new URL(u).pathname for an absolute URL "scheme://host/path?query#frag".
\* UrlParses(u) is FALSE where the constructor throws.
SchemeAt(u) ==
  {i \in 2..(Len(u) - 2) : SubSeq(u, i, i + 2) = <<":", "/", "/">>
                           /\ \A k \in 1..(i-1) : u[k] \notin (WS \cup {"/", ":"})}
UrlParses(u) == SchemeAt(u) # {} /\ \A i \in 1..Len(u) : u[i] \notin WS
UrlPathname(u) ==
  LET hostFrom == (CHOOSE i \in SchemeAt(u) : TRUE) + 3
      slashes == {j \in hostFrom..Len(u) : u[j] = "/"}
  IN  IF slashes = {}
        THEN <<"/">>
        ELSE LET start == CHOOSE j \in slashes : \A k \in slashes : j <= k
                 stops == {k \in start..Len(u) : u[k] \in {"?", "#"}}
                 stop == IF stops = {} THEN Len(u)
                         ELSE (CHOOSE k \in stops : \A m \in stops : k <= m) - 1
             IN  SubSeq(u, start, stop)

(***************************************************************************)
(* Per-variant field caps (the second argument of the normalising calls).  *)
(***************************************************************************)
CapsA == [company |-> 200, name |-> 120, email |-> 200, website |-> 300,
          message |-> 2000, source_path |-> 300, user_agent |-> 300]
CapsB == [name |-> 120, email |-> 200, website |-> 300,
          message |-> 3000, source_path |-> 500, user_agent |-> 400]
CapsC == [name |-> 200, email |-> 200, website |-> 500,
          message |-> 4000, source_path |-> 500, user_agent |-> 500]

(***************************************************************************)
(* CORS policy of each variant.                                            *)
(***************************************************************************)
\* const allow = [...] of pickAllowedOrigin (variant A)
AllowList == << <<"h", "t", "t", "p", "s", ":", "/", "/", "a", "u", "d", "i", "t", "u", "n", "i", "v", "e", "r", "s", "e", "p", "r", "o", ".", "c", "o", "m">>,
                <<"h", "t", "t", "p", "s", ":", "/", "/", "w", "w", "w", ".", "a", "u", "d", "i", "t", "u", "n", "i", "v", "e", "r", "s", "e", "p", "r", "o", ".", "c", "o", "m">> >>

\* const ALLOWED_ORIGINS = new Set([...]) (variant C)
ALLOWED_ORIGINS == { <<"h", "t", "t", "p", "s", ":", "/", "/", "a", "u", "d", "i", "t", "u", "n", "i", "v", "e", "r", "s", "e", "p", "r", "o", ".", "c", "o", "m">>,
                     <<"h", "t", "t", "p", "s", ":", "/", "/", "w", "w", "w", ".", "a", "u", "d", "i", "t", "u", "n", "i", "v", "e", "r", "s", "e", "p", "r", "o", ".", "c", "o", "m">>,
                     <<"h", "t", "t", "p", "s", ":", "/", "/", "a", "u", "d", "i", "t", "u", "n", "i", "v", "e", "r", "s", "e", "p", "r", "o", "-", "s", "i", "t", "e", ".", "p", "a", "g", "e", "s", ".", "d", "e", "v">>,
                     <<"h", "t", "t", "p", ":", "/", "/", "l", "o", "c", "a", "l", "h", "o", "s", "t", ":", "8", "0", "0", "0">>,
                     <<"h", "t", "t", "p", ":", "/", "/", "1", "2", "7", ".", "0", ".", "0", ".", "1", ":", "8", "0", "0", "0">>,
                     <<"h", "t", "t", "p", ":", "/", "/", "l", "o", "c", "a", "l", "h", "o", "s", "t", ":", "8", "7", "8", "8">>,
                     <<"h", "t", "t", "p", ":", "/", "/", "1", "2", "7", ".", "0", ".", "0", ".", "1", ":", "8", "7", "8", "8">> }

\* pickAllowedOrigin(req) of variant A; the result is a string, "" for none.
PickAllowedOrigin(req) ==
  LET origin == JsString(JsOr(req.origin, JsStr(<<>>)))
  IN  IF origin = <<>> THEN <<>>
      ELSE IF EndsWith(origin, <<".", "p", "a", "g", "e", "s", ".", "d", "e", "v">>) THEN origin
      ELSE IF StartsWith(origin, <<"h", "t", "t", "p", ":", "/", "/", "l", "o", "c", "a", "l", "h", "o", "s", "t">>) THEN origin
      ELSE IF \E i \in 1..Len(AllowList) : AllowList[i] = origin THEN origin
      ELSE AllowList[1]

\* getAllowedOrigin(req) of variant C
GetAllowedOrigin(req) ==
  IF ~Truthy(req.origin) THEN <<>>
  ELSE IF JsString(req.origin) \in ALLOWED_ORIGINS THEN JsString(req.origin)
  ELSE <<>>

\* corsHeaders["Access-Control-Allow-Origin"] of variant B: origin || "*"
CorsOriginB(req) ==
  LET origin == JsString(JsOr(req.origin, JsStr(<<>>)))
  IN  IF origin # <<>> THEN origin ELSE <<"*">>

(***************************************************************************)
(* Responses.  acao is the Access-Control-Allow-Origin header, JsNull when *)
(* the header is not set.  webhook_sent is "absent" when the body has no   *)
(* such key.                                                               *)
(***************************************************************************)
NoResponse ==
  [status |-> 0, hasBody |-> FALSE, ok |-> FALSE, error |-> "",
   webhook_sent |-> "absent", acao |-> JsNull]

\* jsonResponse(body, {status, origin}) of variants A and C: the CORS origin
\* header is set only when origin is a non-empty string.
JsonResponse(ok, error, status, origin) ==
  [status |-> status, hasBody |-> TRUE, ok |-> ok, error |-> error,
   webhook_sent |-> "absent", acao |-> OrNull(origin)]

\* json(obj, status) of variant B: corsHeaders are always spread in.
JsonB(ok, error, status, req) ==
  [status |-> status, hasBody |-> TRUE, ok |-> ok, error |-> error,
   webhook_sent |-> "absent", acao |-> JsStr(CorsOriginB(req))]

\* corsPreflight(origin) of variant C
CorsPreflight(origin) ==
  [status |-> 204, hasBody |-> FALSE, ok |-> FALSE, error |-> "",
   webhook_sent |-> "absent", acao |-> OrNull(origin)]

\* new Response(null, {status: 204, headers: corsHeaders}) of variant B
PreflightResponseB(req) ==
  [status |-> 204, hasBody |-> FALSE, ok |-> FALSE, error |-> "",
   webhook_sent |-> "absent", acao |-> JsStr(CorsOriginB(req))]

\* The catch block of variant A.  The source file breaks off inside it
\* (lead.js line 165, after `{ ok: false, error: "S`); the status is taken
\* from the specification: unexpected exceptions give 500, generic message.
CatchResponseA(origin) == JsonResponse(FALSE, "Server error", 500, origin)

\* The catch block of variant C.
CatchResponseC(origin) == JsonResponse(FALSE, "Server error", 500, origin)

(***************************************************************************)
(* Request bodies and the platform's body readers.                         *)
(***************************************************************************)
FieldNames == {"name", "email", "website", "message", "consent",
               "source_path", "company", "hp"}
EmptyFields == [k \in FieldNames |-> JsNull]

\* await request.json(): throws unless the body is JSON text.
JsonThrows(req) == req.wire # "json"
\* await request.formData(): throws a TypeError unless the Content-Type is
\* urlencoded or multipart; a multipart body that is not multipart throws;
\* urlencoded parsing accepts any text and yields whatever keys it finds.
FormDataThrows(req) ==
  \/ req.ct \notin {"urlencoded", "multipart"}
  \/ req.ct = "multipart" /\ req.wire # "multipart"
FormDataFields(req) == IF req.wire = req.ct THEN req.sent ELSE EmptyFields
\* new URLSearchParams(await request.text()): never throws.
SearchParamsFields(req) ==
  IF req.wire = "urlencoded" THEN req.sent ELSE EmptyFields

\* readBody(request) of variant A: seven named keys, no hp.
ReadBodyThrowsA(req) ==
  IF req.ct = "json" THEN JsonThrows(req) ELSE FormDataThrows(req)
ReadBodyA(req) ==
  LET data == IF req.ct = "json" THEN req.sent ELSE FormDataFields(req)
  IN  [data EXCEPT !.hp = JsNull]

\* readBody(request) of variant C: the whole object.
ReadBodyThrowsC(req) ==
  IF req.ct = "json" THEN JsonThrows(req) ELSE FormDataThrows(req)
ReadBodyC(req) == IF req.ct = "json" THEN req.sent ELSE FormDataFields(req)

\* The body parsing block of variant B: every failure yields {}.
ParseBodyB(req) ==
  CASE req.ct = "json" -> IF JsonThrows(req) THEN EmptyFields ELSE req.sent
    [] req.ct = "urlencoded" -> SearchParamsFields(req)
    [] req.ct = "multipart" ->
         IF FormDataThrows(req) THEN EmptyFields ELSE FormDataFields(req)
    [] OTHER -> SearchParamsFields(req)

(***************************************************************************)
(* Inputs.                                                                 *)
(***************************************************************************)
Variants == {"A", "B", "C"}
Methods == {"OPTIONS", "POST", "GET"}

Origins == { JsNull,
             JsStr(<<"h", "t", "t", "p", "s", ":", "/", "/", "a", "u", "d", "i", "t", "u", "n", "i", "v", "e", "r", "s", "e", "p", "r", "o", ".", "c", "o", "m">>),
             JsStr(<<"h", "t", "t", "p", "s", ":", "/", "/", "a", "u", "d", "i", "t", "u", "n", "i", "v", "e", "r", "s", "e", "p", "r", "o", "-", "s", "i", "t", "e", ".", "p", "a", "g", "e", "s", ".", "d", "e", "v">>),
             JsStr(<<"h", "t", "t", "p", "s", ":", "/", "/", "e", "v", "i", "l", ".", "p", "a", "g", "e", "s", ".", "d", "e", "v">>),
             JsStr(<<"h", "t", "t", "p", ":", "/", "/", "l", "o", "c", "a", "l", "h", "o", "s", "t", ":", "8", "0", "0", "0">>),
             JsStr(<<"h", "t", "t", "p", ":", "/", "/", "l", "o", "c", "a", "l", "h", "o", "s", "t", ".", "e", "v", "i", "l", ".", "e", "x", "a", "m", "p", "l", "e">>),
             JsStr(<<"h", "t", "t", "p", "s", ":", "/", "/", "e", "v", "i", "l", ".", "e", "x", "a", "m", "p", "l", "e">>) }
PostOrigins == { JsStr(<<"h", "t", "t", "p", "s", ":", "/", "/", "a", "u", "d", "i", "t", "u", "n", "i", "v", "e", "r", "s", "e", "p", "r", "o", ".", "c", "o", "m">>) }

EmailInputs == { JsNull,
                 JsStr(<<>>),
                 JsStr(<<"a", "@", "b", ".", "c", "o">>),
                 JsStr(<<" ", " ", "J", "o", ".", "D", "o", "e", "@", "E", "x", "a", "m", "p", "l", "e", ".", "C", "O", "M", " ">>),
                 JsStr(<<"n", "o", "t", "-", "a", "n", "-", "e", "m", "a", "i", "l">>),
                 JsStr(<<"a", "@", "b">>),
                 JsStr(<<"a", " ", "b", "@", "c", ".", "d", "e">>) }

ConsentInputs == { JsNull, JsStr(<<"1">>), JsStr(<<"t", "r", "u", "e">>), JsStr(<<"o", "n">>),
                   JsStr(<<"y", "e", "s">>), JsTrue, JsOne, JsStr(<<"n", "o">>),
                   JsStr(<<" ", "O", "n", " ">>) }

\* <<company, hp>>
HoneypotInputs == { <<JsNull, JsNull>>,
                    <<JsStr(<<"S", "p", "a", "m", "B", "o", "t">>), JsNull>>,
                    <<JsNull, JsStr(<<"S", "p", "a", "m", "B", "o", "t">>)>>,
                    <<JsStr(<<"S", "p", "a", "m", "B", "o", "t">>), JsStr(<<" ", " ">>)>>,
                    <<JsStr(<<" ", " ", " ">>), JsNull>> }

Body(name, email, website, message, consent, source_path, honeypot) ==
  [name |-> name, email |-> email, website |-> website, message |-> message,
   consent |-> consent, source_path |-> source_path,
   company |-> honeypot[1], hp |-> honeypot[2]]

\* Bodies that vary e-mail, consent and honeypot.
CoreBodies ==
  { Body(JsStr(<<"J", "o">>), e, JsNull, JsNull, c, JsNull, h) :
      e \in EmailInputs, c \in ConsentInputs, h \in HoneypotInputs }

\* Accepted bodies that vary the remaining fields: padded and over-long.
PaddedBody ==
  Body(JsStr(<<" ", " ", "J", "o", " ", " ">>), JsStr(<<"a", "@", "b", ".", "c", "o">>), JsStr(<<" ", "h", "t", "t", "p", "s", ":", "/", "/", "x", ".", "i", "o", " ">>),
       JsStr(<<" ", "h", "i", " ", "t", "h", "e", "r", "e", " ">>), JsStr(<<"o", "n">>), JsStr(<<" ", "/", "p", "r", "i", "c", "i", "n", "g", " ">>),
       <<JsNull, JsNull>>)
LongBody ==
  Body(JsStr(LongStr(MidLen)), JsStr(<<"a", "@", "b", ".", "c", "o">>), JsStr(LongStr(MidLen)),
       JsStr(LongStr(LongLen)), JsStr(<<"o", "n">>),
       JsStr(<<"/">> \o LongStr(MidLen)), <<JsNull, JsNull>>)
LongEmailBody ==
  Body(JsStr(<<"J", "o">>), JsStr(<<"J", "o", "@", "E", "x", "a", "m", "p", "l", "e", ".">> \o LongStr(MidLen)), JsNull,
       JsNull, JsStr(<<"o", "n">>), JsNull, <<JsNull, JsNull>>)
PlainBody ==
  Body(JsStr(<<"J", "o">>), JsStr(<<"a", "@", "b", ".", "c", "o">>), JsNull, JsNull, JsStr(<<"o", "n">>),
       JsNull, <<JsNull, JsNull>>)
SpamBody ==
  Body(JsStr(<<"J", "o">>), JsStr(<<"a", "@", "b", ".", "c", "o">>), JsNull, JsNull, JsStr(<<"o", "n">>),
       JsNull, <<JsStr(<<"S", "p", "a", "m", "B", "o", "t">>), JsNull>>)

DefaultUserAgent == JsStr(<<"M", "o", "z", "i", "l", "l", "a", "/", "5", ".", "0">>)
RequestUrl == <<"h", "t", "t", "p", "s", ":", "/", "/", "a", "u", "d", "i", "t", "u", "n", "i", "v", "e", "r", "s", "e", "p", "r", "o", ".", "c", "o", "m", "/", "a", "p", "i", "/", "l", "e", "a", "d">>

\* <<Referer, User-Agent>>
HeaderInputs == { <<JsNull, DefaultUserAgent>>,
                  <<JsStr(<<"h", "t", "t", "p", "s", ":", "/", "/", "a", "u", "d", "i", "t", "u", "n", "i", "v", "e", "r", "s", "e", "p", "r", "o", ".", "c", "o", "m", "/", "p", "r", "i", "c", "i", "n", "g", "?", "x", "=", "1">>),
                    DefaultUserAgent>>,
                  <<JsStr(<<"h", "t", "t", "p", "s", ":", "/", "/", "a", "u", "d", "i", "t", "u", "n", "i", "v", "e", "r", "s", "e", "p", "r", "o", ".", "c", "o", "m", "/">> \o LongStr(MidLen)),
                    DefaultUserAgent>>,
                  <<JsStr(<<"n", "o", "t", " ", "a", " ", "u", "r", "l">>), DefaultUserAgent>>,
                  <<JsNull, JsStr(LongStr(MidLen))>>,
                  <<JsNull, JsNull>> }

\* <<Content-Type, what the body really is>>
ContentTypes == {"json", "urlencoded", "multipart", "other"}
Wires == {"json", "urlencoded", "multipart", "garbage"}

\* A form body carries strings only.
IsFormValue(v) == v.t \in {"null", "string"}

\* <<body, headers>> pairs sent over a transport whose Content-Type matches.
MatchedPosts(wire) ==
  IF wire = "multipart"
    THEN {PlainBody, PaddedBody, SpamBody} \X {<<JsNull, DefaultUserAgent>>}
    ELSE { p \in (CoreBodies \X {<<JsNull, DefaultUserAgent>>})
               \cup ({LongEmailBody} \X {<<JsNull, DefaultUserAgent>>})
               \cup ({LongBody} \X {<<JsNull, DefaultUserAgent>>})
               \cup ({PlainBody, PaddedBody} \X HeaderInputs) :
             wire = "json" \/ IsFormValue(p[1].consent) }

\* <<body, headers>> pairs sent under a Content-Type the body does not match.
MismatchedPosts(wire) ==
  IF wire = "garbage"
    THEN {<<EmptyFields, <<JsNull, DefaultUserAgent>>>>}
    ELSE {PlainBody, SpamBody} \X {<<JsNull, DefaultUserAgent>>}

PostsOver(ct, wire) ==
  IF ct = wire THEN MatchedPosts(wire) ELSE MismatchedPosts(wire)

\* env.LEAD_WEBHOOK_URL
WebhookInputs == { JsNull, JsStr(<<" ", " ">>), JsStr(<<"h", "t", "t", "p", "s", ":", "/", "/", "h", "o", "o", "k", ".", "e", "x", "a", "m", "p", "l", "e", "/", "x">>) }

Request(method, origin, ct, wire, post) ==
  [method |-> method, origin |-> origin, ct |-> ct, wire |-> wire,
   sent |-> post[1], referer |-> post[2][1], userAgent |-> post[2][2],
   url |-> RequestUrl]

EmptyLead ==
  [name |-> <<>>, email |-> <<>>, website |-> <<>>, message |-> <<>>,
   consent |-> 0, source_path |-> <<>>, user_agent |-> <<>>]

(***************************************************************************)
(* Initial state: one request arrives at one variant under one             *)
(* configuration; nothing has been read, stored or sent.                   *)
(***************************************************************************)
Init ==
  /\ variant \in Variants
  /\ env \in [LEADS_DB : BOOLEAN, LEAD_WEBHOOK_URL : WebhookInputs]
  /\ \/ \E o \in Origins, m \in {"OPTIONS"} :
          request = Request(m, o, "json", "garbage",
                            <<EmptyFields, <<JsNull, DefaultUserAgent>>>>)
     \/ \E o \in Origins, m \in {"GET"} :
          request = Request(m, o, "json", "garbage",
                            <<EmptyFields, <<JsNull, DefaultUserAgent>>>>)
     \/ \E o \in PostOrigins, ct \in ContentTypes, wire \in Wires :
          \E post \in PostsOver(ct, wire) :
            request = Request("POST", o, ct, wire, post)
  /\ pc = "entry"
  /\ raw = EmptyFields
  /\ lead = EmptyLead
  /\ dbCalls = <<>>
  /\ fetchCalls = <<>>
  /\ response = NoResponse

(***************************************************************************)
(* Storage and webhook.                                                    *)
(***************************************************************************)
\* .bind(name || null, email, website || null, message || null, consent,
\*       source_path || null, user_agent || null) of variants A and B
RowOrNull(l) ==
  [name |-> OrNull(l.name), email |-> JsStr(l.email),
   website |-> OrNull(l.website), message |-> OrNull(l.message),
   consent |-> l.consent, source_path |-> OrNull(l.source_path),
   user_agent |-> OrNull(l.user_agent)]

\* .bind(name, email, website, message, 1, source_path, user_agent) of C
RowC(l) ==
  [name |-> JsStr(l.name), email |-> JsStr(l.email),
   website |-> JsStr(l.website), message |-> JsStr(l.message),
   consent |-> 1, source_path |-> JsStr(l.source_path),
   user_agent |-> JsStr(l.user_agent)]

\* The JSON body of the webhook call (timestamp and client IP left out).
Payload(l, consent) ==
  [name |-> l.name, email |-> l.email, website |-> l.website,
   message |-> l.message, consent |-> consent,
   source_path |-> l.source_path, user_agent |-> l.user_agent]

\* .run() either completes (TRUE) or throws (FALSE).
RunOutcomes == BOOLEAN
\* fetch(url, ...) resolves (TRUE) or throws (FALSE): a network error at any
\* time, a TypeError always when url is not a URL.
FetchOutcomes(url) == IF UrlParses(url) THEN BOOLEAN ELSE {FALSE}

Finish(r) == response' = r /\ pc' = "done"

(***************************************************************************)
(* Variant C: src/unnamed/part_000, onRequest.                             *)
(***************************************************************************)
OriginC == GetAllowedOrigin(request)

C_Preflight ==
  /\ variant = "C" /\ pc = "entry" /\ request.method = "OPTIONS"
  /\ Finish(CorsPreflight(OriginC))
  /\ UNCHANGED <<variant, request, env, raw, lead, dbCalls, fetchCalls>>

C_MethodNotAllowed ==
  /\ variant = "C" /\ pc = "entry"
  /\ request.method \notin {"OPTIONS", "POST"}
  /\ Finish(JsonResponse(FALSE, "Method not allowed", 405, OriginC))
  /\ UNCHANGED <<variant, request, env, raw, lead, dbCalls, fetchCalls>>

C_ReadBody ==
  /\ variant = "C" /\ pc = "entry" /\ request.method = "POST"
  /\ IF ReadBodyThrowsC(request)
       THEN Finish(CatchResponseC(OriginC)) /\ UNCHANGED raw
       ELSE raw' = ReadBodyC(request) /\ pc' = "validate"
            /\ UNCHANGED response
  /\ UNCHANGED <<variant, request, env, lead, dbCalls, fetchCalls>>

\* consentRaw === true || === "true" || === "1" || === 1 || === "on"
ConsentC(consentRaw) ==
  \/ consentRaw = JsTrue
  \/ consentRaw = JsStr(<<"t", "r", "u", "e">>)
  \/ consentRaw = JsStr(<<"1">>)
  \/ consentRaw = JsOne
  \/ consentRaw = JsStr(<<"o", "n">>)

\* source_path: the body's value, else the Referer's path, else the
\* request URL's path.
SourcePathC(body, req) ==
  LET given == NormalizeString(body.source_path, CapsC.source_path)
      ref == JsString(JsOr(req.referer, JsStr(<<>>)))
      fromRef == IF ref # <<>> /\ UrlParses(ref) THEN UrlPathname(ref)
                 ELSE <<>>
  IN  IF given # <<>> THEN given
      ELSE IF fromRef # <<>> THEN fromRef
      ELSE UrlPathname(req.url)

C_Validate ==
  /\ variant = "C" /\ pc = "validate"
  /\ LET name == NormalizeString(raw.name, CapsC.name)
         email == ToLowerCase(NormalizeString(raw.email, CapsC.email))
         website == NormalizeString(raw.website, CapsC.website)
         message == NormalizeString(raw.message, CapsC.message)
         consent == ConsentC(raw.consent)
         read == [EmptyLead EXCEPT !.name = name, !.email = email,
                    !.website = website, !.message = message,
                    !.consent = IF consent THEN 1 ELSE 0]
     IN  IF email = <<>> \/ ~IsValidEmail(email)
           THEN /\ Finish(JsonResponse(FALSE, "Invalid email", 400, OriginC))
                /\ lead' = read
         ELSE IF ~consent
           THEN /\ Finish(JsonResponse(FALSE, "Consent required", 400, OriginC))
                /\ lead' = read
         ELSE /\ lead' = [read EXCEPT
                   !.source_path = SourcePathC(raw, request),
                   !.user_agent =
                     NormalizeString(JsOr(request.userAgent, JsStr(<<>>)),
                                     CapsC.user_agent)]
              /\ pc' = "insert"
              /\ UNCHANGED response
  /\ UNCHANGED <<variant, request, env, raw, dbCalls, fetchCalls>>

\* C_Insert without the binding test: env.LEADS_DB.prepare throws on the
\* absent binding and the catch block answers.
C_Insert_NoBindingTest ==
  /\ variant = "C" /\ pc = "insert"
  /\ IF ~env.LEADS_DB
       THEN /\ Finish(CatchResponseC(OriginC))
            /\ UNCHANGED dbCalls
       ELSE \E done \in RunOutcomes :
              /\ dbCalls' = Append(dbCalls, [row |-> RowC(lead), ok |-> done])
              /\ IF done
                   THEN pc' = "forward" /\ UNCHANGED response
                   ELSE Finish(CatchResponseC(OriginC))
  /\ UNCHANGED <<variant, request, env, raw, lead, fetchCalls>>

C_Insert ==
  /\ variant = "C" /\ pc = "insert"
  /\ IF ~env.LEADS_DB
       THEN /\ Finish(JsonResponse(FALSE,
                 "Server misconfiguration (LEADS_DB missing)", 500, OriginC))
            /\ UNCHANGED dbCalls
       ELSE \E done \in RunOutcomes :
              /\ dbCalls' = Append(dbCalls, [row |-> RowC(lead), ok |-> done])
              /\ IF done
                   THEN pc' = "forward" /\ UNCHANGED response
                   ELSE Finish(CatchResponseC(OriginC))
  /\ UNCHANGED <<variant, request, env, raw, lead, fetchCalls>>

C_Forward ==
  /\ variant = "C" /\ pc = "forward"
  /\ LET hook == Trim(JsString(JsOr(env.LEAD_WEBHOOK_URL, JsStr(<<>>))))
         okResponse(sent) ==
           [JsonResponse(TRUE, "", 200, OriginC) EXCEPT
              !.webhook_sent = IF sent THEN "true" ELSE "false"]
     IN  IF hook # <<>>
           THEN \E sent \in FetchOutcomes(hook) :
                  /\ fetchCalls' = Append(fetchCalls,
                       [url |-> hook, payload |-> Payload(lead, TRUE),
                        ok |-> sent])
                  /\ Finish(okResponse(sent))
           ELSE /\ UNCHANGED fetchCalls
                /\ Finish(okResponse(FALSE))
  /\ UNCHANGED <<variant, request, env, raw, lead, dbCalls>>

(***************************************************************************)
(* Variant A: src/functions/api/lead.js lines 83-165, onRequest.           *)
(***************************************************************************)
OriginA == PickAllowedOrigin(request)

A_Preflight ==
  /\ variant = "A" /\ pc = "entry" /\ request.method = "OPTIONS"
  /\ Finish(JsonResponse(TRUE, "", 204, OriginA))
  /\ UNCHANGED <<variant, request, env, raw, lead, dbCalls, fetchCalls>>

A_MethodNotAllowed ==
  /\ variant = "A" /\ pc = "entry"
  /\ request.method \notin {"OPTIONS", "POST"}
  /\ Finish(JsonResponse(FALSE, "Method not allowed", 405, OriginA))
  /\ UNCHANGED <<variant, request, env, raw, lead, dbCalls, fetchCalls>>

A_CheckBinding ==
  /\ variant = "A" /\ pc = "entry" /\ request.method = "POST"
  /\ IF ~env.LEADS_DB
       THEN Finish(JsonResponse(FALSE, "Missing D1 binding: LEADS_DB", 500,
                                OriginA))
       ELSE pc' = "readBody" /\ UNCHANGED response
  /\ UNCHANGED <<variant, request, env, raw, lead, dbCalls, fetchCalls>>

A_ReadBody ==
  /\ variant = "A" /\ pc = "readBody"
  /\ IF ReadBodyThrowsA(request)
       THEN Finish(CatchResponseA(OriginA)) /\ UNCHANGED raw
       ELSE raw' = ReadBodyA(request) /\ pc' = "honeypot"
            /\ UNCHANGED response
  /\ UNCHANGED <<variant, request, env, lead, dbCalls, fetchCalls>>

\* String(raw.consent ?? "").toLowerCase() is "1", "true" or "on"
ConsentA(consentRaw) ==
  LET s == ToLowerCase(JsString(IF IsNullish(consentRaw) THEN JsStr(<<>>)
                                ELSE consentRaw))
  IN  IF s \in { <<"1">>, <<"t", "r", "u", "e">>, <<"o", "n">> } THEN 1 ELSE 0

\* normalizeString(raw.source_path, 300) || new URL(request.url).pathname
SourcePathA(body, req) ==
  LET given == NormalizeString(body.source_path, CapsA.source_path)
  IN  IF given # <<>> THEN given ELSE UrlPathname(req.url)

\* The honeypot test and, past it, the normalisation of every field.
A_Honeypot ==
  /\ variant = "A" /\ pc = "honeypot"
  /\ LET company == NormalizeString(raw.company, CapsA.company)
     IN  IF company # <<>>
           THEN Finish(JsonResponse(TRUE, "", 200, OriginA)) /\ UNCHANGED lead
           ELSE /\ lead' =
                     [name |-> NormalizeString(raw.name, CapsA.name),
                      email |-> ToLowerCase(NormalizeString(raw.email,
                                                            CapsA.email)),
                      website |-> NormalizeString(raw.website, CapsA.website),
                      message |-> NormalizeString(raw.message, CapsA.message),
                      consent |-> ConsentA(raw.consent),
                      source_path |-> SourcePathA(raw, request),
                      user_agent |-> NormalizeString(request.userAgent,
                                                     CapsA.user_agent)]
                /\ pc' = "validate"
                /\ UNCHANGED response
  /\ UNCHANGED <<variant, request, env, raw, dbCalls, fetchCalls>>

A_Validate ==
  /\ variant = "A" /\ pc = "validate"
  /\ IF lead.email = <<>> \/ ~IsValidEmail(lead.email)
       THEN Finish(JsonResponse(FALSE, "Valid email is required.", 400,
                                OriginA))
       ELSE pc' = "insert" /\ UNCHANGED response
  /\ UNCHANGED <<variant, request, env, raw, lead, dbCalls, fetchCalls>>

A_Insert ==
  /\ variant = "A" /\ pc = "insert"
  /\ \E done \in RunOutcomes :
       /\ dbCalls' = Append(dbCalls, [row |-> RowOrNull(lead), ok |-> done])
       /\ IF done
            THEN pc' = "forward" /\ UNCHANGED response
            ELSE Finish(CatchResponseA(OriginA))
  /\ UNCHANGED <<variant, request, env, raw, lead, fetchCalls>>

\* The fetch is awaited with no try of its own: a throw reaches the
\* handler's catch block.
A_Forward ==
  /\ variant = "A" /\ pc = "forward"
  /\ LET hook == env.LEAD_WEBHOOK_URL
     IN  IF Truthy(hook)
           THEN \E sent \in FetchOutcomes(JsString(hook)) :
                  /\ fetchCalls' = Append(fetchCalls,
                       [url |-> JsString(hook),
                        payload |-> Payload(lead, lead.consent # 0),
                        ok |-> sent])
                  /\ IF sent
                       THEN Finish(JsonResponse(TRUE, "", 200, OriginA))
                       ELSE Finish(CatchResponseA(OriginA))
           ELSE /\ UNCHANGED fetchCalls
                /\ Finish(JsonResponse(TRUE, "", 200, OriginA))
  /\ UNCHANGED <<variant, request, env, raw, lead, dbCalls>>

(***************************************************************************)
(* Variant B: src/functions/api/lead.js lines 167-284, onRequest.          *)
(***************************************************************************)
B_Preflight ==
  /\ variant = "B" /\ pc = "entry" /\ request.method = "OPTIONS"
  /\ Finish(PreflightResponseB(request))
  /\ UNCHANGED <<variant, request, env, raw, lead, dbCalls, fetchCalls>>

B_MethodNotAllowed ==
  /\ variant = "B" /\ pc = "entry"
  /\ request.method \notin {"OPTIONS", "POST"}
  /\ Finish(JsonB(FALSE, "Method not allowed. Use POST.", 405, request))
  /\ UNCHANGED <<variant, request, env, raw, lead, dbCalls, fetchCalls>>

B_ParseBody ==
  /\ variant = "B" /\ pc = "entry" /\ request.method = "POST"
  /\ raw' = ParseBodyB(request)
  /\ pc' = "honeypot"
  /\ UNCHANGED <<variant, request, env, lead, dbCalls, fetchCalls, response>>

\* ["1", "true", "on", "yes"].includes(str(data.consent).toLowerCase())
ConsentB(consentRaw) ==
  IF ToLowerCase(Str(consentRaw)) \in { <<"1">>, <<"t", "r", "u", "e">>, <<"o", "n">>, <<"y", "e", "s">> }
    THEN 1 ELSE 0

\* The honeypot test and, past it, the normalisation of every field.
B_Honeypot ==
  /\ variant = "B" /\ pc = "honeypot"
  /\ LET hp == Str(JsOr(raw.hp, raw.company))
     IN  IF hp # <<>>
           THEN Finish(JsonB(TRUE, "", 200, request)) /\ UNCHANGED lead
           ELSE /\ lead' =
                     [name |-> Slice(Str(raw.name), CapsB.name),
                      email |-> Slice(Str(raw.email), CapsB.email),
                      website |-> Slice(Str(raw.website), CapsB.website),
                      message |-> Slice(Str(raw.message), CapsB.message),
                      consent |-> ConsentB(raw.consent),
                      source_path |-> Slice(Str(raw.source_path),
                                            CapsB.source_path),
                      user_agent |-> Slice(Str(request.userAgent),
                                           CapsB.user_agent)]
                /\ pc' = "validate"
                /\ UNCHANGED response
  /\ UNCHANGED <<variant, request, env, raw, dbCalls, fetchCalls>>

B_Validate ==
  /\ variant = "B" /\ pc = "validate"
  /\ IF lead.email = <<>>
       THEN Finish(JsonB(FALSE, "Email is required.", 400, request))
     ELSE IF ~IsValidEmail(lead.email)
       THEN Finish(JsonB(FALSE, "Invalid email format.", 400, request))
     ELSE IF lead.consent = 0
       THEN Finish(JsonB(FALSE, "Consent is required.", 400, request))
     ELSE pc' = "insert" /\ UNCHANGED response
  /\ UNCHANGED <<variant, request, env, raw, lead, dbCalls, fetchCalls>>

\* B_Insert with the catch block continuing to the webhook.
B_Insert_FailureIgnored ==
  /\ variant = "B" /\ pc = "insert"
  /\ IF ~env.LEADS_DB
       THEN /\ Finish(JsonB(FALSE,
                 "Server not configured (LEADS_DB missing).", 500, request))
            /\ UNCHANGED dbCalls
       ELSE \E done \in RunOutcomes :
              /\ dbCalls' = Append(dbCalls,
                                   [row |-> RowOrNull(lead), ok |-> done])
              /\ pc' = "forward" /\ UNCHANGED response
  /\ UNCHANGED <<variant, request, env, raw, lead, fetchCalls>>

B_Insert ==
  /\ variant = "B" /\ pc = "insert"
  /\ IF ~env.LEADS_DB
       THEN /\ Finish(JsonB(FALSE,
                 "Server not configured (LEADS_DB missing).", 500, request))
            /\ UNCHANGED dbCalls
       ELSE \E done \in RunOutcomes :
              /\ dbCalls' = Append(dbCalls,
                                   [row |-> RowOrNull(lead), ok |-> done])
              /\ IF done
                   THEN pc' = "forward" /\ UNCHANGED response
                   ELSE Finish(JsonB(FALSE, "Database insert failed.", 500,
                                     request))
  /\ UNCHANGED <<variant, request, env, raw, lead, fetchCalls>>

B_Forward ==
  /\ variant = "B" /\ pc = "forward"
  /\ LET webhook == Str(env.LEAD_WEBHOOK_URL)
     IN  IF webhook # <<>>
           THEN \E sent \in FetchOutcomes(webhook) :
                  fetchCalls' = Append(fetchCalls,
                    [url |-> webhook,
                     payload |-> Payload(lead, lead.consent # 0),
                     ok |-> sent])
           ELSE UNCHANGED fetchCalls
  /\ Finish(JsonB(TRUE, "", 200, request))
  /\ UNCHANGED <<variant, request, env, raw, lead, dbCalls>>

(***************************************************************************)
(* Specification.                                                          *)
(***************************************************************************)
Next ==
  \/ A_Preflight \/ A_MethodNotAllowed \/ A_CheckBinding \/ A_ReadBody
  \/ A_Honeypot \/ A_Validate \/ A_Insert \/ A_Forward
  \/ B_Preflight \/ B_MethodNotAllowed \/ B_ParseBody
  \/ B_Honeypot \/ B_Validate \/ B_Insert \/ B_Forward
  \/ C_Preflight \/ C_MethodNotAllowed \/ C_ReadBody
  \/ C_Validate \/ C_Insert \/ C_Forward

Spec == Init /\ [][Next]_vars

TypeOK ==
  /\ variant \in Variants
  /\ pc \in {"entry", "readBody", "honeypot", "validate", "insert",
             "forward", "done"}
  /\ Len(dbCalls) <= 1
  /\ Len(fetchCalls) <= 1

(***************************************************************************)
(* Vocabulary of the properties.                                           *)
(***************************************************************************)
Done == pc = "done"
IsPost == request.method = "POST"
NoSideEffects == dbCalls = <<>> /\ fetchCalls = <<>>
InsertSucceeded == dbCalls # <<>> /\ dbCalls[1].ok
ForwardFailed == fetchCalls # <<>> /\ ~fetchCalls[1].ok

\* The body as sent carries a honeypot field that is non-empty once trimmed.
HoneypotFilled(body) ==
  \/ Trim(JsString(body.company)) # <<>>
  \/ Trim(JsString(body.hp)) # <<>>

\* The submitted e-mail, trimmed and lower-cased.
SubmittedEmail(body) == ToLowerCase(Trim(JsString(body.email)))

\* The body cannot be parsed: it is no body of any known encoding, or it is
\* not of the encoding its Content-Type announces.
Unparsable(req) ==
  req.wire = "garbage" \/ (req.ct # "other" /\ req.ct # req.wire)

\* The body reaches the handler's fields in every variant.
Parsable(req) == req.ct = req.wire

\* The consent representations the specification lists.
ListedConsents ==
  { JsStr(<<"1">>), JsStr(<<"t", "r", "u", "e">>), JsStr(<<"o", "n">>), JsStr(<<"y", "e", "s">>), JsTrue }

\* The consent representations every variant takes for consent.
CommonConsents == { JsStr(<<"1">>), JsStr(<<"t", "r", "u", "e">>), JsStr(<<"o", "n">>), JsTrue }

\* The request is one every variant stores when the binding is present.
WouldBeStored(req) ==
  /\ Parsable(req)
  /\ ~HoneypotFilled(req.sent)
  /\ IsValidEmail(Slice(SubmittedEmail(req.sent), CapsC.email))
  /\ req.sent.consent \in CommonConsents

\* The response reports the missing storage binding.
IsConfigurationError(r) ==
  /\ r.status = 500 /\ ~r.ok
  /\ r.error \in { "Missing D1 binding: LEADS_DB",
                   "Server not configured (LEADS_DB missing).",
                   "Server misconfiguration (LEADS_DB missing)" }

Caps(v) == CASE v = "A" -> CapsA [] v = "B" -> CapsB [] v = "C" -> CapsC

\* The Origin is one the variant's allow-list policy admits.  Variant B
\* holds no list of its own; the list of its file stands for its policy.
OriginAllowed(v, o) ==
  /\ Truthy(o)
  /\ CASE v = "A" -> \/ \E i \in 1..Len(AllowList) : AllowList[i] = JsString(o)
                     \/ EndsWith(JsString(o), <<".", "p", "a", "g", "e", "s", ".", "d", "e", "v">>)
                     \/ StartsWith(JsString(o), <<"h", "t", "t", "p", ":", "/", "/", "l", "o", "c", "a", "l", "h", "o", "s", "t">>)
       [] v = "B" -> \E i \in 1..Len(AllowList) : AllowList[i] = JsString(o)
       [] v = "C" -> JsString(o) \in ALLOWED_ORIGINS

HasUpperCase(s) == \E i \in 1..Len(s) : LowerChar(s[i]) # s[i]

(***************************************************************************)
(* Properties.                                                             *)
(***************************************************************************)

\* C1: a POST whose body carries a non-empty honeypot field (company or hp)
\* is answered 200 {ok:true} with no storage insert and no webhook call, in
\* every variant and whatever the other fields are.  Stated for a readable
\* body and a deployment whose storage binding is present.
C1_HoneypotSilentDrop ==
  (Done /\ IsPost /\ Parsable(request) /\ env.LEADS_DB
        /\ HoneypotFilled(request.sent)) =>
    (response.status = 200 /\ response.ok /\ NoSideEffects)

\* C2: a POST without honeypot whose normalized e-mail is empty or does not
\* match the regular expression is answered 400 with ok:false, with no
\* storage insert and no webhook call, whatever the consent and the
\* configuration.
C2_InvalidEmailRejected ==
  (Done /\ IsPost /\ ~HoneypotFilled(request.sent)
        /\ ~IsValidEmail(SubmittedEmail(request.sent))) =>
    (response.status = 400 /\ ~response.ok /\ NoSideEffects)

\* C3: once the insert has succeeded, a fetch to the webhook URL that throws
\* a network error does not change the response: it is still 200 with
\* ok:true.
C3_WebhookFailureTolerated ==
  (Done /\ IsPost /\ InsertSucceeded /\ ForwardFailed
        /\ UrlParses(fetchCalls[1].url)) =>
    (response.status = 200 /\ response.ok)

\* C4: within one request the webhook is called at most once and only after
\* the insert of that request has succeeded; a failed insert is answered 500
\* and no webhook call is made.
C4_InsertPrecedesWebhook ==
  /\ Len(fetchCalls) <= 1
  /\ Len(dbCalls) <= 1
  /\ fetchCalls # <<>> => InsertSucceeded
  /\ (dbCalls # <<>> /\ ~dbCalls[1].ok) =>
       (Done /\ response.status = 500 /\ ~response.ok /\ fetchCalls = <<>>)

\* C4 witnesses: the webhook was called after a successful insert.
C4_Witness ==
  Done /\ InsertSucceeded /\ Len(fetchCalls) = 1 /\ response.status = 200

\* C5: an OPTIONS request touches neither storage nor webhook, is answered
\* 204, and carries Access-Control-Allow-Origin equal to the request Origin
\* exactly when the Origin is allowed; the header is absent otherwise.
C5_PreflightCors ==
  (Done /\ request.method = "OPTIONS") =>
    /\ response.status = 204
    /\ NoSideEffects
    /\ IF OriginAllowed(variant, request.origin)
         THEN response.acao = request.origin
         ELSE response.acao = JsNull

\* C6 as stated: with the storage binding absent, every POST, whatever its
\* body (valid, invalid e-mail, missing consent, honeypot filled), is
\* answered 500 with a configuration-error message and performs no insert
\* and no webhook call.  Stated for readable bodies.
C6_AnyPostIsConfigurationError ==
  (Done /\ IsPost /\ ~env.LEADS_DB /\ Parsable(request)) =>
    (IsConfigurationError(response) /\ NoSideEffects)

\* C6 as amended: with the storage binding absent, no POST performs an
\* insert or a webhook call, and every POST that would otherwise be stored
\* (readable body, no honeypot, valid e-mail, consent given as "1", "true",
\* "on" or boolean true) is answered 500 with a configuration-error message.
C6_MissingBinding ==
  (Done /\ IsPost /\ ~env.LEADS_DB) =>
    /\ NoSideEffects
    /\ WouldBeStored(request) => IsConfigurationError(response)

\* C6 witness: a submission that would be stored is stopped by the missing
\* binding after it has passed validation.
C6_Witness ==
  /\ Done /\ IsPost /\ ~env.LEADS_DB /\ variant = "C"
  /\ WouldBeStored(request)
  /\ lead.consent = 1
  /\ IsConfigurationError(response)

\* C7: the e-mail bound to the insert and sent to the webhook is the
\* submitted e-mail trimmed and lower-cased (cut to the e-mail cap), and has
\* no upper-case character.
C7_StoredEmailLowerCased ==
  LET expected == Slice(SubmittedEmail(request.sent), Caps(variant).email)
  IN  /\ \A i \in 1..Len(dbCalls) :
           /\ dbCalls[i].row.email = JsStr(expected)
           /\ ~HasUpperCase(JsString(dbCalls[i].row.email))
      /\ \A i \in 1..Len(fetchCalls) :
           /\ fetchCalls[i].payload.email = expected
           /\ ~HasUpperCase(fetchCalls[i].payload.email)

\* C8: every string field of a row bound to the insert is no longer than the
\* variant's cap for the field, source_path included when it is defaulted
\* from the Referer or the request URL; and an over-long input is truncated
\* and accepted, not rejected.
C8_StoredFieldsWithinCaps ==
  /\ \A i \in 1..Len(dbCalls) :
       \A f \in {"name", "email", "website", "message", "source_path",
                 "user_agent"} :
         Len(JsString(dbCalls[i].row[f])) <= Caps(variant)[f]
  /\ (Done /\ IsPost /\ Parsable(request) /\ request.sent = LongBody)
       => response.status # 400

\* C9: "1", "true", "on", "yes" and boolean true are consent, anything else
\* is not, in every variant: a non-honeypot POST with a valid e-mail and one
\* of these values is inserted with consent = 1 and answered 200, and in the
\* consent-enforcing variants B and C any other consent value is answered
\* 400 and nothing is inserted.
C9_ConsentNormalization ==
  /\ (Done /\ IsPost /\ Parsable(request) /\ env.LEADS_DB
           /\ ~HoneypotFilled(request.sent)
           /\ IsValidEmail(SubmittedEmail(request.sent))
           /\ request.sent.consent \in ListedConsents) =>
       /\ dbCalls # <<>>
       /\ dbCalls[1].row.consent = 1
       /\ (InsertSucceeded /\ ~ForwardFailed) =>
            (response.status = 200 /\ response.ok)
  /\ (Done /\ IsPost /\ Parsable(request) /\ variant \in {"B", "C"}
           /\ ~HoneypotFilled(request.sent)
           /\ IsValidEmail(SubmittedEmail(request.sent))
           /\ request.sent.consent \notin ListedConsents) =>
       (response.status = 400 /\ dbCalls = <<>>)

\* C10: a POST whose body cannot be parsed is handled as an empty field map:
\* it is answered 400 for the missing e-mail, never 500, and nothing is
\* inserted.  Stated for a deployment whose storage binding is present.
C10_UnparsableBodyIsEmpty ==
  (Done /\ IsPost /\ env.LEADS_DB /\ Unparsable(request)) =>
    (response.status = 400 /\ dbCalls = <<>>)
====
